---- MODULE Spec2Model ----
(***************************************************************************)
(* URLTester / URLScanner: two concurrent URL probers over one wordlist.   *)
(*                                                                         *)
(*   src/main.py          URLTester  - thread pool, simple accept policy   *)
(*   src/core/scanner.py  URLScanner - asyncio tasks behind a semaphore,   *)
(*                                     filter-based accept policy, CSV     *)
(*                                                                         *)
(* Python values are modelled with their dynamic type kept: an int n is    *)
(* [int |-> n] and a str s is [str |-> s], so that isinstance(status, int) *)
(* is a test on the value.  Strings that are taken apart (URLs, wordlist   *)
(* lines, bodies) are sequences of characters; a multi-character token     *)
(* such as "x.test" or "admin" stands for a run of characters none of      *)
(* which is a slash or white space.                                        *)
(***************************************************************************)
EXTENDS Integers, Sequences, FiniteSets, TLC

VARIABLES
    impl,           \* which program runs: "tester" (main.py) or "scanner" (core/scanner.py)
    fs,             \* the wordlist file: NoFile, or File(its lines)
    config,         \* base_url, concurrency (max_workers), filters
    pc,             \* orchestrator position
    base_url,       \* self.base_url
    words,          \* the loaded wordlist
    submitted,      \* number of words already turned into a future / coroutine
    task,           \* task[i]: state of the i-th future / coroutine
    outcome,        \* outcome[i]: value the i-th future holds once done, None before
    doneq,          \* futures done and not yet yielded by as_completed, in completion order
    early,          \* futures already finished when concurrent.futures.as_completed was called
    sem,            \* asyncio.Semaphore._value
    results,        \* URLScanner.results / URLTester.found_urls
    tested_count,   \* URLTester.tested_count
    error_count,    \* URLTester.error_count
    report,         \* the output file: NoFile, or File(its rows)
    summary,        \* what _print_summary printed: None or the counts
    runEnd,         \* how the run ended: "running", "returned", "SystemExit", "ZeroDivisionError"
    calls,          \* transport instrumentation: requests issued so far
    served,         \* transport instrumentation: served[i] is the answer given to target i
    produced,       \* produced[i]: number of outcomes the i-th target has produced
    classified,     \* classified[i]: number of times the i-th outcome was classified
    acceptedFrom,   \* acceptedFrom[k]: the target whose outcome is results[k]
    writes          \* number of times output_file was opened for writing

vars == <<impl, fs, config, pc, base_url, words, submitted, task, outcome,
          doneq, early, sem, results, tested_count, error_count, report, summary,
          runEnd, calls, served, produced, classified, acceptedFrom, writes>>

(***************************************************************************)
(* Bounds of the model.                                                    *)
(***************************************************************************)
MaxLines == 3       \* lines in the wordlist file
MaxConc == 2        \* concurrency / max_workers
MaxBody == 2        \* characters in a response body, where bodies are enumerated

(***************************************************************************)
(* Python values.                                                          *)
(***************************************************************************)
None == [none |-> TRUE]
NoFile == [nofile |-> TRUE]
File(content) == [content |-> content]
PyInt(n) == [int |-> n]
PyStr(s) == [str |-> s]
IsInt(v) == DOMAIN v = {"int"}

\* bytes.lower() / str.lower() on one character of the model's alphabet
LowerChar(c) == IF c = "A" THEN "a" ELSE IF c = "B" THEN "b" ELSE c

Lower(s) == [i \in 1..Len(s) |-> LowerChar(s[i])]

\* the `in` operator on bytes: kw occurs in s as a contiguous run
Contains(s, kw) ==
    \E i \in 0..(Len(s) - Len(kw)) : \A j \in 1..Len(kw) : s[i + j] = kw[j]

IsSpace(c) == c = " "

RECURSIVE LStrip(_)
LStrip(s) == IF s # <<>> /\ IsSpace(Head(s)) THEN LStrip(Tail(s)) ELSE s

RECURSIVE RStrip(_)
RStrip(s) ==
    IF s # <<>> /\ IsSpace(s[Len(s)]) THEN RStrip(SubSeq(s, 1, Len(s) - 1)) ELSE s

\* str.strip()
Strip(s) == LStrip(RStrip(s))

\* str.rstrip('/')
RECURSIVE RStripSlash(_)
RStripSlash(s) ==
    IF s # <<>> /\ s[Len(s)] = "/" THEN RStripSlash(SubSeq(s, 1, Len(s) - 1)) ELSE s

\* [line.strip() for line in f if line.strip()]
RECURSIVE StripNonBlank(_)
StripNonBlank(lines) ==
    IF lines = <<>> THEN <<>>
    ELSE IF Strip(Head(lines)) # <<>>
         THEN <<Strip(Head(lines))>> \o StripNonBlank(Tail(lines))
         ELSE StripNonBlank(Tail(lines))

(***************************************************************************)
(* Target generation.                                                      *)
(***************************************************************************)
\* 'x'.split('/'): the runs between slashes, empty runs included
RECURSIVE SplitFrom(_, _)
SplitFrom(s, cur) ==
    IF s = <<>> THEN <<cur>>
    ELSE IF Head(s) = "/" THEN <<cur>> \o SplitFrom(Tail(s), <<>>)
         ELSE SplitFrom(Tail(s), Append(cur, Head(s)))

SplitSlash(s) == SplitFrom(s, <<>>)

\* '/'.join(segs)
RECURSIVE JoinSlash(_)
JoinSlash(segs) ==
    IF segs = <<>> THEN <<>>
    ELSE IF Len(segs) = 1 THEN segs[1]
         ELSE segs[1] \o <<"/">> \o JoinSlash(Tail(segs))

\* filter(None, segs): the non-empty segments
RECURSIVE FilterEmpty(_)
FilterEmpty(segs) ==
    IF segs = <<>> THEN <<>>
    ELSE IF Head(segs) = <<>> THEN FilterEmpty(Tail(segs))
         ELSE <<Head(segs)>> \o FilterEmpty(Tail(segs))

\* the scheme tokens urlsplit recognises in the model's alphabet
IsScheme(tok) == tok = "http:"

\* urllib.parse.urlsplit restricted to scheme, netloc, path (the alphabet has no ? or #)
UrlScheme(u) == IF u # <<>> /\ IsScheme(u[1]) THEN u[1] ELSE ""

AfterScheme(u) == IF u # <<>> /\ IsScheme(u[1]) THEN Tail(u) ELSE u

HasNetloc(u) == Len(AfterScheme(u)) >= 2 /\ AfterScheme(u)[1] = "/" /\ AfterScheme(u)[2] = "/"

RECURSIVE UpToSlash(_)
UpToSlash(s) ==
    IF s = <<>> \/ Head(s) = "/" THEN <<>> ELSE <<Head(s)>> \o UpToSlash(Tail(s))

UrlNetloc(u) ==
    IF HasNetloc(u) THEN UpToSlash(SubSeq(AfterScheme(u), 3, Len(AfterScheme(u)))) ELSE <<>>

UrlPath(u) ==
    IF HasNetloc(u)
    THEN SubSeq(AfterScheme(u), 3 + Len(UrlNetloc(u)), Len(AfterScheme(u)))
    ELSE AfterScheme(u)

\* the dot-segment loop of urljoin: '..' pops, '.' is skipped
RECURSIVE ResolveDots(_, _)
ResolveDots(segs, acc) ==
    IF segs = <<>> THEN acc
    ELSE IF Head(segs) = <<"..">>
         THEN ResolveDots(Tail(segs),
                          IF acc = <<>> THEN acc ELSE SubSeq(acc, 1, Len(acc) - 1))
         ELSE IF Head(segs) = <<".">> THEN ResolveDots(Tail(segs), acc)
              ELSE ResolveDots(Tail(segs), Append(acc, Head(segs)))

\* urlunsplit for an http URL: scheme, '//', netloc, path (made absolute)
UrlUnsplit(scheme, netloc, path) ==
    <<scheme, "/", "/">> \o netloc
        \o (IF path # <<>> /\ path[1] # "/" THEN <<"/">> \o path ELSE path)

\* urllib.parse.urljoin(base, url) for an http base
UrlJoin(base, url) ==
    IF base = <<>> THEN url
    ELSE IF url = <<>> THEN base
    ELSE IF UrlScheme(url) # "" /\ UrlScheme(url) # UrlScheme(base) THEN url
    ELSE IF HasNetloc(url) THEN UrlUnsplit(UrlScheme(base), UrlNetloc(url), UrlPath(url))
    ELSE IF UrlPath(url) = <<>> THEN UrlUnsplit(UrlScheme(base), UrlNetloc(base), UrlPath(base))
    ELSE
        LET bparts0 == SplitSlash(UrlPath(base))
            bparts == IF bparts0[Len(bparts0)] # <<>>
                      THEN SubSeq(bparts0, 1, Len(bparts0) - 1) ELSE bparts0
            path == UrlPath(url)
            segs0 == IF path[1] = "/" THEN SplitSlash(path) ELSE bparts \o SplitSlash(path)
            segs == IF Len(segs0) >= 2
                    THEN <<segs0[1]>> \o FilterEmpty(SubSeq(segs0, 2, Len(segs0) - 1))
                             \o <<segs0[Len(segs0)]>>
                    ELSE segs0
            res0 == ResolveDots(segs, <<>>)
            res == IF segs[Len(segs)] \in {<<".">>, <<"..">>} THEN Append(res0, <<>>) ELSE res0
            joined == JoinSlash(res)
        IN UrlUnsplit(UrlScheme(base), UrlNetloc(base),
                      IF joined = <<>> THEN <<"/">> ELSE joined)

\* URLTester.test_single_url: full_url = urljoin(self.base_url + '/', word)
TesterUrl(base, word) == UrlJoin(base \o <<"/">>, word)

\* mutant: base and word are joined with no separator
ScannerUrlNoSeparator(base, word) == base \o word

\* URLScanner.run: url = f"{self.base_url}/{word}"
ScannerUrl(base, word) == base \o <<"/">> \o word

(***************************************************************************)
(* The transport: what one GET can come back with.                         *)
(***************************************************************************)
HttpResponse(status, body) == [kind |-> "http", status |-> status, body |-> body]
TimedOut == [kind |-> "timeout"]
ClientError == [kind |-> "error"]

IsFailure(resp) == resp.kind # "http"

(***************************************************************************)
(* Probe executor.                                                         *)
(***************************************************************************)
\* mutant: a failed request is recorded with the numeric sentinel 0 and an empty body
FetchResultSentinel(url, resp) ==
    IF resp.kind = "http"
    THEN [url |-> url, status |-> PyInt(resp.status),
          content_length |-> Len(resp.body), content |-> Lower(resp.body)]
    ELSE [url |-> url, status |-> PyInt(0), content_length |-> 0, content |-> <<>>]

\* URLScanner._fetch: the dict returned for a response, a timeout, a client error
FetchResult(url, resp) ==
    IF resp.kind = "http"
    THEN [url |-> url, status |-> PyInt(resp.status),
          content_length |-> Len(resp.body), content |-> Lower(resp.body)]
    ELSE IF resp.kind = "timeout"
         THEN [url |-> url, status |-> PyStr("TIMEOUT"), content_length |-> 0]
         ELSE [url |-> url, status |-> PyStr("ERROR"), content_length |-> 0]

\* URLTester.test_single_url: the tuple (full_url, status_code, success)
TestSingleUrlResult(url, resp) ==
    IF resp.kind = "http" THEN <<url, resp.status, TRUE>>
    ELSE IF resp.kind = "timeout" THEN <<url, 0, FALSE>>
         ELSE <<url, 0, FALSE>>

(***************************************************************************)
(* Classifier.                                                             *)
(***************************************************************************)
\* mutant: the length test lets a body of exactly the minimum length through
IsValidResultAtThreshold(result, filters) ==
    IF ~IsInt(result.status) THEN FALSE
    ELSE IF filters.include_status_codes # {}
            /\ result.status \notin filters.include_status_codes THEN FALSE
    ELSE IF result.status \in filters.exclude_status_codes THEN FALSE
    ELSE IF result.content_length < filters.min_content_length THEN FALSE
    ELSE IF \E keyword \in filters.exclude_keywords :
                Contains(result.content, Lower(keyword)) THEN FALSE
    ELSE TRUE

\* URLScanner._is_valid_result
IsValidResult(result, filters) ==
    IF ~IsInt(result.status) THEN FALSE
    ELSE IF filters.include_status_codes # {}
            /\ result.status \notin filters.include_status_codes THEN FALSE
    ELSE IF result.status \in filters.exclude_status_codes THEN FALSE
    ELSE IF result.content_length <= filters.min_content_length THEN FALSE
    ELSE IF \E keyword \in filters.exclude_keywords :
                Contains(result.content, Lower(keyword)) THEN FALSE
    ELSE TRUE

\* mutant: the 404 test is missing
TesterAcceptsAnySuccess(res) == res[3]

\* URLTester.test_urls: `if success and status_code != 404`
TesterAccepts(res) == res[3] /\ res[2] # 404

\* mutant: every outcome that is not accepted counts as an error
TesterCountsErrorAnyReject(res) == ~TesterAccepts(res)

\* URLTester.test_urls: `elif not success`
TesterCountsError(res) == ~TesterAccepts(res) /\ ~res[3]

(***************************************************************************)
(* Report.                                                                 *)
(***************************************************************************)
\* mutant: the last accepted result gets no row
ReportRowsDropLast(rs) ==
    <<<<"URL", "Status Code", "Content Length">>>>
        \o [k \in 1..(Len(rs) - 1) |-> <<rs[k].url, rs[k].status, rs[k].content_length>>]

\* URLScanner._save_report: the rows written to output_file
ReportRows(rs) ==
    <<<<"URL", "Status Code", "Content Length">>>>
        \o [k \in 1..Len(rs) |-> <<rs[k].url, rs[k].status, rs[k].content_length>>]

(***************************************************************************)
(* Inputs.                                                                 *)
(***************************************************************************)
\* the i-th line of a wordlist file, when it is not blank: a padded word on the
\* odd lines and a plain one on the even lines, so that files of three lines and
\* more repeat a word
LineAt(i) == IF i % 2 = 1 THEN <<" ", "admin", " ">> ELSE <<"login">>

BlankLine == <<" ">>

RECURSIVE SeqsUpTo(_, _)
SeqsUpTo(S, n) ==
    IF n = 0 THEN {<<>>}
    ELSE LET shorter == SeqsUpTo(S, n - 1)
         IN shorter \cup {Append(q, x) : q \in {r \in shorter : Len(r) = n - 1}, x \in S}

\* the wordlist path names no file, or a file of up to MaxLines lines, any of them blank
WordlistFiles ==
    {NoFile} \cup UNION {{File([i \in 1..n |-> IF i \in nb THEN LineAt(i) ELSE BlankLine]) :
                             nb \in SUBSET (1..n)} : n \in 0..MaxLines}

BaseUrls == {<<"http:", "/", "/", "x.test">>, <<"http:", "/", "/", "x.test", "/">>}

\* what the transport may answer to any one request
Responses ==
    {HttpResponse(200, <<"O", "k">>), HttpResponse(404, <<>>), TimedOut, ClientError}

Filters(inc, exc, min, kws) ==
    [include_status_codes |-> inc, exclude_status_codes |-> exc,
     min_content_length |-> min, exclude_keywords |-> kws]

\* filter configurations of the scans explored
ScanFilters ==
    {Filters({}, {PyInt(404)}, -1, {}),
     Filters({PyInt(200), PyInt(404)}, {}, -1, {<<"K">>})}

\* the wide input sets: every body over BodyChars up to MaxBody characters, both
\* status codes, and every filter configuration over them
BodyChars == {"a", "A", "b"}

StatusCodes == {200, 404}

WideResponses ==
    {HttpResponse(st, b) : st \in StatusCodes, b \in SeqsUpTo(BodyChars, MaxBody)}
        \cup {TimedOut, ClientError}

KeywordSets == {{}, {<<"a">>}, {<<"B">>}, {<<"A", "b">>}, {<<"b">>, <<"a", "a">>}, {<<>>}}

AllFilters ==
    {Filters(inc, exc, min, kws) :
        inc \in SUBSET {PyInt(st) : st \in StatusCodes},
        exc \in SUBSET {PyInt(st) : st \in StatusCodes},
        min \in -1..MaxBody,
        kws \in KeywordSets}

(***************************************************************************)
(* The scan as a state machine.                                            *)
(***************************************************************************)
Targets == 1..Len(words)

InFlight == Cardinality({i \in Targets : task[i] = "running"})

InScanning == pc \in {"Submitting", "Consuming"}

\* the pool threads / the tasks run while the scan does, and the pool threads also
\* while ThreadPoolExecutor.__exit__ waits for them after a KeyboardInterrupt
PoolAlive == InScanning \/ (impl = "tester" /\ pc = "Interrupted")

RECURSIVE Remove(_, _)
Remove(q, x) ==
    IF q = <<>> THEN <<>>
    ELSE IF Head(q) = x THEN Remove(Tail(q), x) ELSE <<Head(q)>> \o Remove(Tail(q), x)

\* the URL requested for the i-th word
TargetUrl(i) ==
    IF impl = "tester" THEN TesterUrl(base_url, words[i]) ELSE ScannerUrl(base_url, words[i])

\* URLTester.__init__ strips the base; URLScanner.__init__ takes it as configured
InitBaseUrl(kind, b) == IF kind = "tester" THEN RStripSlash(b) ELSE b

\* the state after construction, for inputs drawn from the given sets
InitWith(files, bases, concurrencies, filters) ==
    /\ impl \in {"tester", "scanner"}
    /\ fs \in files
    /\ \E b \in bases, n \in concurrencies, f \in filters :
          /\ config = [base_url |-> b, concurrency |-> n,
                       filters |-> IF impl = "scanner" THEN f ELSE None]
          /\ base_url = InitBaseUrl(impl, b)
    /\ pc = "Idle"
    /\ words = <<>>
    /\ submitted = 0
    /\ task = <<>>
    /\ outcome = <<>>
    /\ doneq = <<>>
    /\ early = {}
    /\ sem = 0
    /\ results = <<>>
    /\ tested_count = 0
    /\ error_count = 0
    /\ report = NoFile
    /\ summary = None
    /\ runEnd = "running"
    /\ calls = 0
    /\ served = <<>>
    /\ produced = <<>>
    /\ classified = <<>>
    /\ acceptedFrom = <<>>
    /\ writes = 0

Init == InitWith(WordlistFiles, BaseUrls, 1..MaxConc, ScanFilters)

\* test_urls / run is entered
Start ==
    /\ pc = "Idle"
    /\ pc' = "LoadingWordlist"
    /\ UNCHANGED <<impl, fs, config, base_url, words, submitted, task, outcome, doneq,
                   early, sem, results, tested_count, error_count, report, summary,
                   runEnd, calls, served, produced, classified, acceptedFrom, writes>>

\* the wordlist opens: load_wordlist returns / run goes on to create the semaphore
LoadWordlist ==
    /\ pc = "LoadingWordlist"
    /\ fs # NoFile
    /\ words' = StripNonBlank(fs.content)
    /\ task' = [i \in 1..Len(words') |-> "pending"]
    /\ outcome' = [i \in 1..Len(words') |-> None]
    /\ produced' = [i \in 1..Len(words') |-> 0]
    /\ served' = [i \in 1..Len(words') |-> None]
    /\ classified' = [i \in 1..Len(words') |-> 0]
    /\ sem' = IF impl = "scanner" THEN config.concurrency ELSE sem
    /\ pc' = "Submitting"
    /\ UNCHANGED <<impl, fs, config, base_url, submitted, doneq, early, results,
                   tested_count, error_count, report, summary, runEnd, calls,
                   acceptedFrom, writes>>

\* FileNotFoundError: URLTester calls sys.exit(1), URLScanner.run logs and returns
WordlistNotFoundEnd(kind) == IF kind = "tester" THEN "SystemExit" ELSE "returned"

\* mutant: the scan goes on with no words
WordlistNotFoundPcGoesOn == "Submitting"

\* neither goes on to scan: `sys.exit(1)` / `return` leave before the requests
WordlistNotFoundPc == "Failed"

WordlistNotFound ==
    /\ pc = "LoadingWordlist"
    /\ fs = NoFile
    /\ pc' = WordlistNotFoundPc
    /\ runEnd' = WordlistNotFoundEnd(impl)
    /\ UNCHANGED <<impl, fs, config, base_url, words, submitted, task, outcome, doneq,
                   early, sem, results, tested_count, error_count, report, summary,
                   calls, served, produced, classified, acceptedFrom, writes>>

\* executor.submit(self.test_single_url, word) / tasks.append(self._fetch(...))
Submit ==
    /\ pc = "Submitting"
    /\ submitted < Len(words)
    /\ submitted' = submitted + 1
    /\ task' = [task EXCEPT ![submitted + 1] = "queued"]
    /\ UNCHANGED <<impl, fs, config, pc, base_url, words, outcome, doneq, early, sem,
                   results, tested_count, error_count, report, summary, runEnd, calls,
                   served, produced, classified, acceptedFrom, writes>>

\* as_completed(...) is called once every word is submitted; the thread-pool
\* version first takes the futures that are already finished
EarlyFinished == IF impl = "tester" THEN {i \in Targets : task[i] = "done"} ELSE {}

AsCompleted ==
    /\ pc = "Submitting"
    /\ submitted = Len(words)
    /\ pc' = "Consuming"
    /\ early' = EarlyFinished
    /\ UNCHANGED <<impl, fs, config, base_url, words, submitted, task, outcome, doneq,
                   sem, results, tested_count, error_count, report, summary, runEnd,
                   calls, served, produced, classified, acceptedFrom, writes>>

\* mutant: the pool starts a thread per work item
WorkerAvailableUnbounded == TRUE

\* ThreadPoolExecutor: a work item runs only on one of at most max_workers threads
WorkerAvailable == InFlight < config.concurrency

\* a pool thread takes the oldest queued work item and calls test_single_url
WorkerStart(i) ==
    /\ impl = "tester"
    /\ PoolAlive
    /\ task[i] = "queued"
    /\ \A j \in Targets : task[j] = "queued" => i <= j
    /\ WorkerAvailable
    /\ task' = [task EXCEPT ![i] = "running"]
    /\ calls' = calls + 1
    /\ UNCHANGED <<impl, fs, config, pc, base_url, words, submitted, outcome, doneq,
                   early, sem, results, tested_count, error_count, report, summary,
                   runEnd, served, produced, classified, acceptedFrom, writes>>

\* asyncio.Semaphore.acquire without blocking
PermitFree == sem > 0

\* a task created by as_completed runs _fetch up to `async with semaphore`
TaskStart(i) ==
    /\ impl = "scanner"
    /\ pc = "Consuming"
    /\ task[i] = "queued"
    /\ IF PermitFree
       THEN /\ task' = [task EXCEPT ![i] = "running"]
            /\ sem' = sem - 1
            /\ calls' = calls + 1
       ELSE /\ task' = [task EXCEPT ![i] = "waiting"]
            /\ UNCHANGED <<sem, calls>>
    /\ UNCHANGED <<impl, fs, config, pc, base_url, words, submitted, outcome, doneq,
                   early, results, tested_count, error_count, report, summary, runEnd,
                   served, produced, classified, acceptedFrom, writes>>

\* a task blocked in acquire gets a permit and issues its request
WaiterAcquire(i) ==
    /\ impl = "scanner"
    /\ pc = "Consuming"
    /\ task[i] = "waiting"
    /\ PermitFree
    /\ task' = [task EXCEPT ![i] = "running"]
    /\ sem' = sem - 1
    /\ calls' = calls + 1
    /\ UNCHANGED <<impl, fs, config, pc, base_url, words, submitted, outcome, doneq,
                   early, results, tested_count, error_count, report, summary, runEnd,
                   served, produced, classified, acceptedFrom, writes>>

\* the value the probe returns for a transport answer
ProbeResult(i, resp) ==
    IF impl = "tester" THEN TestSingleUrlResult(TargetUrl(i), resp)
    ELSE FetchResult(TargetUrl(i), resp)

\* mutant: the permit is given back only after a response was read
SemAfterFetchLeakOnFailure(resp) ==
    IF impl = "scanner" /\ resp.kind = "http" THEN sem + 1 ELSE sem

\* `async with semaphore` is left: the permit is given back on every path
SemAfterFetch(resp) == IF impl = "scanner" THEN sem + 1 ELSE sem

\* mutant: the client error is not caught and ends the run
PcAfterProbeUncaught(resp) == IF resp.kind = "error" THEN "Failed" ELSE pc

\* both probes catch the timeout and the client error and return a value, so the
\* orchestrator stays where it is
PcAfterProbe(resp) == pc

\* mutant: the probe counts its own request
TestedAfterProbeCounted(resp) == tested_count + 1

\* test_single_url and _fetch return a value and write no attribute of self
TestedAfterProbe(resp) == tested_count

\* the request of target i comes back: response read, timeout, or client error
RequestFinish(i, resp) ==
    /\ PoolAlive
    /\ task[i] = "running"
    /\ pc' = PcAfterProbe(resp)
    /\ tested_count' = TestedAfterProbe(resp)
    /\ task' = [task EXCEPT ![i] = "done"]
    /\ outcome' = [outcome EXCEPT ![i] = ProbeResult(i, resp)]
    /\ doneq' = Append(doneq, i)
    /\ sem' = SemAfterFetch(resp)
    /\ produced' = [produced EXCEPT ![i] = @ + 1]
    /\ served' = [served EXCEPT ![i] = resp]
    /\ UNCHANGED <<impl, fs, config, base_url, words, submitted, early, results,
                   error_count, report, summary, runEnd, calls, classified,
                   acceptedFrom, writes>>

\* mutant: as_completed yields any finished future
IsNextYieldedAnyDone(i) == task[i] = "done"

\* the future as_completed yields next
IsNextYielded(i) ==
    IF early # {} THEN i \in early ELSE doneq # <<>> /\ i = Head(doneq)

\* one pass of `for future in as_completed(future_to_word)` in URLTester.test_urls
TesterConsume(i) ==
    /\ impl = "tester"
    /\ pc = "Consuming"
    /\ IsNextYielded(i)
    /\ early' = early \ {i}
    /\ doneq' = Remove(doneq, i)
    /\ task' = [task EXCEPT ![i] = "yielded"]
    /\ classified' = [classified EXCEPT ![i] = @ + 1]
    /\ tested_count' = tested_count + 1
    /\ IF TesterAccepts(outcome[i])
       THEN /\ results' = Append(results, <<outcome[i][1], outcome[i][2]>>)
            /\ acceptedFrom' = Append(acceptedFrom, i)
            /\ UNCHANGED error_count
       ELSE /\ error_count' = IF TesterCountsError(outcome[i])
                              THEN error_count + 1 ELSE error_count
            /\ UNCHANGED <<results, acceptedFrom>>
    /\ UNCHANGED <<impl, fs, config, pc, base_url, words, submitted, outcome, sem,
                   report, summary, runEnd, calls, served, produced, writes>>

\* one pass of `for f in tqdm.as_completed(tasks, ...)` in URLScanner.run
ScannerConsume(i) ==
    /\ impl = "scanner"
    /\ pc = "Consuming"
    /\ IsNextYielded(i)
    /\ early' = early \ {i}
    /\ doneq' = Remove(doneq, i)
    /\ task' = [task EXCEPT ![i] = "yielded"]
    /\ classified' = [classified EXCEPT ![i] = @ + 1]
    /\ IF IsValidResult(outcome[i], config.filters)
       THEN /\ results' = Append(results, outcome[i])
            /\ acceptedFrom' = Append(acceptedFrom, i)
       ELSE UNCHANGED <<results, acceptedFrom>>
    /\ UNCHANGED <<impl, fs, config, pc, base_url, words, submitted, outcome, sem,
                   tested_count, error_count, report, summary, runEnd, calls, served,
                   produced, writes>>

\* mutant: the loop ends as soon as no finished future is at hand
AllYieldedNoneReady == doneq = <<>>

\* as_completed is exhausted once every future has been yielded
AllYielded == \A i \in Targets : task[i] = "yielded"

\* the loop ends; the executor / the client session is closed
EndScan ==
    /\ pc = "Consuming"
    /\ AllYielded
    /\ pc' = "Summarizing"
    /\ UNCHANGED <<impl, fs, config, base_url, words, submitted, task, outcome, doneq,
                   early, sem, results, tested_count, error_count, report, summary,
                   runEnd, calls, served, produced, classified, acceptedFrom, writes>>

\* sorted(self.found_urls, key=lambda x: x[1]): stable, so entries of equal status
\* keep the order they were appended in
RECURSIVE InsertByStatus(_, _)
InsertByStatus(sorted, e) ==
    IF sorted = <<>> THEN <<e>>
    ELSE IF e[2] < Head(sorted)[2] THEN <<e>> \o sorted
         ELSE <<Head(sorted)>> \o InsertByStatus(Tail(sorted), e)

RECURSIVE SortedByStatus(_)
SortedByStatus(found) ==
    IF found = <<>> THEN <<>>
    ELSE InsertByStatus(SortedByStatus(SubSeq(found, 1, Len(found) - 1)), found[Len(found)])

\* what URLTester._print_summary prints: the counts, then, unless the division by
\* the elapsed time raised, the found URLs sorted by status
SummaryPrinted(elapsed) ==
    [tested |-> Len(words), found |-> Len(results), errors |-> error_count,
     listing |-> IF elapsed = 0 THEN <<>> ELSE SortedByStatus(results)]

\* URLTester._print_summary(len(words), elapsed_time); total/elapsed raises when the
\* clock did not advance, and main turns that into exit status 1
PrintSummary(elapsed) ==
    /\ impl = "tester"
    /\ pc = "Summarizing"
    /\ summary' = SummaryPrinted(elapsed)
    /\ IF elapsed = 0
       THEN pc' = "Failed" /\ runEnd' = "ZeroDivisionError"
       ELSE pc' = "Done" /\ runEnd' = "returned"
    /\ UNCHANGED <<impl, fs, config, base_url, words, submitted, task, outcome, doneq,
                   early, sem, results, tested_count, error_count, report, calls,
                   served, produced, classified, acceptedFrom, writes>>

\* mutant: the report is opened for writing whatever the results are
ReportSkippedNever(rs) == FALSE

\* URLScanner._save_report: `if not self.results:` logs and returns before the open
ReportSkipped(rs) == rs = <<>>

\* URLScanner._save_report, then run returns
SaveReport ==
    /\ impl = "scanner"
    /\ pc = "Summarizing"
    /\ IF ReportSkipped(results)
       THEN UNCHANGED <<report, writes>>
       ELSE report' = File(ReportRows(results)) /\ writes' = writes + 1
    /\ pc' = "Done"
    /\ runEnd' = "returned"
    /\ UNCHANGED <<impl, fs, config, base_url, words, submitted, task, outcome, doneq,
                   early, sem, results, tested_count, error_count, summary, calls,
                   served, produced, classified, acceptedFrom>>

\* the process exit status that follows from how the run ended; main turns a
\* KeyboardInterrupt into sys.exit(0)
ExitStatus ==
    IF runEnd = "returned" \/ (runEnd = "KeyboardInterrupt" /\ impl = "tester") THEN 0 ELSE 1

\* SIGINT while requests are in flight.  URLTester: KeyboardInterrupt is raised in
\* the main thread inside `with ThreadPoolExecutor`, whose __exit__ waits for the
\* pool.  URLScanner: the run is cancelled at its await, the tasks with it, and
\* run is left before _save_report.
Interrupt ==
    /\ InScanning
    /\ InFlight > 0
    /\ IF impl = "tester"
       THEN /\ pc' = "Interrupted"
            /\ UNCHANGED <<task, sem, runEnd>>
       ELSE /\ pc' = "Failed"
            /\ runEnd' = "KeyboardInterrupt"
            /\ task' = [i \in Targets |->
                           IF task[i] \in {"queued", "waiting", "running"}
                           THEN "cancelled" ELSE task[i]]
            /\ sem' = config.concurrency
    /\ UNCHANGED <<impl, fs, config, base_url, words, submitted, outcome, doneq, early,
                   results, tested_count, error_count, report, summary, calls, served,
                   produced, classified, acceptedFrom, writes>>

\* the pool has drained its queue: shutdown(wait=True) returns, KeyboardInterrupt
\* leaves test_urls and main prints the notice and calls sys.exit(0)
InterruptExit ==
    /\ impl = "tester"
    /\ pc = "Interrupted"
    /\ \A i \in Targets : task[i] \notin {"queued", "running"}
    /\ pc' = "Failed"
    /\ runEnd' = "KeyboardInterrupt"
    /\ UNCHANGED <<impl, fs, config, base_url, words, submitted, task, outcome, doneq,
                   early, sem, results, tested_count, error_count, report, summary,
                   calls, served, produced, classified, acceptedFrom, writes>>

Next ==
    \/ Start
    \/ LoadWordlist
    \/ WordlistNotFound
    \/ Submit
    \/ AsCompleted
    \/ \E i \in Targets : WorkerStart(i)
    \/ \E i \in Targets : TaskStart(i)
    \/ \E i \in Targets : WaiterAcquire(i)
    \/ \E i \in Targets, resp \in Responses : RequestFinish(i, resp)
    \/ \E i \in Targets : TesterConsume(i)
    \/ \E i \in Targets : ScannerConsume(i)
    \/ EndScan
    \/ \E elapsed \in {0, 1} : PrintSummary(elapsed)
    \/ SaveReport

Spec == Init /\ [][Next]_vars

\* scans of a one-line wordlist with one request at a time, over the wide input sets
InitFilters ==
    InitWith({File(<<LineAt(1)>>)}, {<<"http:", "/", "/", "x.test">>}, {1}, AllFilters)

NextFilters ==
    \/ Start
    \/ LoadWordlist
    \/ Submit
    \/ AsCompleted
    \/ \E i \in Targets : WorkerStart(i)
    \/ \E i \in Targets : TaskStart(i)
    \/ \E i \in Targets, resp \in WideResponses : RequestFinish(i, resp)
    \/ \E i \in Targets : TesterConsume(i)
    \/ \E i \in Targets : ScannerConsume(i)
    \/ EndScan
    \/ \E elapsed \in {0, 1} : PrintSummary(elapsed)
    \/ SaveReport

SpecFilters == InitFilters /\ [][NextFilters]_vars

\* the end-to-end scenario: three words on http://x.test, a transport that answers
\* by the word, filters include=[], exclude=[404], min_length=100, no keywords
Body(n) == [k \in 1..n |-> "x"]

E2EBase == <<"http:", "/", "/", "x.test">>

E2EFile == File(<<<<"admin">>, <<"login">>, <<"missing">>>>)

E2EFilters == Filters({}, {PyInt(404)}, 100, {})

E2EResponse(word) ==
    IF word = <<"admin">> THEN HttpResponse(200, Body(500))
    ELSE IF word = <<"login">> THEN HttpResponse(404, Body(50))
    ELSE TimedOut

InitE2E == InitWith({E2EFile}, {E2EBase}, 1..MaxConc, {E2EFilters})

NextE2E ==
    \/ Start
    \/ LoadWordlist
    \/ Submit
    \/ AsCompleted
    \/ \E i \in Targets : WorkerStart(i)
    \/ \E i \in Targets : TaskStart(i)
    \/ \E i \in Targets : WaiterAcquire(i)
    \/ \E i \in Targets : RequestFinish(i, E2EResponse(words[i]))
    \/ \E i \in Targets : TesterConsume(i)
    \/ \E i \in Targets : ScannerConsume(i)
    \/ EndScan
    \/ \E elapsed \in {0, 1} : PrintSummary(elapsed)
    \/ SaveReport

SpecE2E == InitE2E /\ [][NextE2E]_vars

\* scans that an interrupt may cut short
InitInterrupt ==
    InitWith(WordlistFiles \ {NoFile}, {E2EBase}, 1..MaxConc, {Filters({}, {PyInt(404)}, -1, {})})

NextInterrupt ==
    \/ Start
    \/ LoadWordlist
    \/ Submit
    \/ AsCompleted
    \/ \E i \in Targets : WorkerStart(i)
    \/ \E i \in Targets : TaskStart(i)
    \/ \E i \in Targets : WaiterAcquire(i)
    \/ \E i \in Targets, resp \in Responses : RequestFinish(i, resp)
    \/ \E i \in Targets : TesterConsume(i)
    \/ \E i \in Targets : ScannerConsume(i)
    \/ EndScan
    \/ \E elapsed \in {0, 1} : PrintSummary(elapsed)
    \/ SaveReport
    \/ Interrupt
    \/ InterruptExit

SpecInterrupt == InitInterrupt /\ [][NextInterrupt]_vars

\* scans over base URLs with and without trailing slashes and a path, and over
\* wordlist entries with slashes in them
WideBaseUrls ==
    {<<"http:", "/", "/", "x.test">> \o tail :
        tail \in {<<>>, <<"/">>, <<"/", "/">>, <<"/", "app">>, <<"/", "app", "/">>}}

TargetWords == {<<"admin">>, <<"/", "admin">>, <<"a", "/", "b">>}

InitTargets ==
    InitWith({File(<<w1, BlankLine, w2 \o <<" ">>>>) : w1, w2 \in TargetWords},
             WideBaseUrls, {1}, {Filters({}, {}, -1, {})})

NextTargets ==
    \/ Start
    \/ LoadWordlist
    \/ Submit
    \/ AsCompleted
    \/ \E i \in Targets : WorkerStart(i)
    \/ \E i \in Targets : TaskStart(i)
    \/ \E i \in Targets : WaiterAcquire(i)
    \/ \E i \in Targets, resp \in {HttpResponse(200, <<"O", "k">>), TimedOut} :
           RequestFinish(i, resp)
    \/ \E i \in Targets : TesterConsume(i)
    \/ \E i \in Targets : ScannerConsume(i)
    \/ EndScan
    \/ \E elapsed \in {0, 1} : PrintSummary(elapsed)
    \/ SaveReport

SpecTargets == InitTargets /\ [][NextTargets]_vars

\* URLScanner.run on a wordlist that exists, under the event loop's scheduling:
\* a step that can be taken (a ready task, a returning request, the next pass of
\* the loop) is eventually taken, and every request eventually completes, fails
\* or times out
\* the three ways a request can end
FetchExits == {HttpResponse(200, <<"O", "k">>), TimedOut, ClientError}

InitFair ==
    /\ InitWith(WordlistFiles \ {NoFile}, {E2EBase}, 1..MaxConc,
                {Filters({}, {PyInt(404)}, -1, {})})
    /\ impl = "scanner"

NextFair ==
    \/ Start
    \/ LoadWordlist
    \/ Submit
    \/ AsCompleted
    \/ \E i \in Targets : TaskStart(i)
    \/ \E i \in Targets : WaiterAcquire(i)
    \/ \E i \in Targets, resp \in FetchExits : RequestFinish(i, resp)
    \/ \E i \in Targets : ScannerConsume(i)
    \/ EndScan
    \/ SaveReport

SpecFair == InitFair /\ [][NextFair]_vars /\ WF_vars(NextFair)

(***************************************************************************)
(* Properties.                                                             *)
(***************************************************************************)
\* the scanning loop has run to its end
ScanCompleted ==
    pc \in {"Summarizing", "Done"} \/ (pc = "Failed" /\ runEnd = "ZeroDivisionError")

\* targets whose request timed out or failed at the transport
FailedTargets == {i \in Targets : served[i] # None /\ IsFailure(served[i])}

\* targets that still wait for a thread or a permit
NotStarted == {i \in Targets : task[i] \in {"queued", "waiting"}}

RECURSIVE SumSeq(_)
SumSeq(q) == IF q = <<>> THEN 0 ELSE Head(q) + SumSeq(Tail(q))

\* lines of a file that hold something other than white space
NonBlankLines(lines) ==
    {i \in 1..Len(lines) : \E j \in 1..Len(lines[i]) : ~IsSpace(lines[i][j])}

\* C1: the number of requests in flight never exceeds the configured concurrency:
\* the transport has never more than N calls started and not yet returned, and a
\* target that has not started is never started into a full house.
C1_InFlightAtMostN ==
    /\ InFlight <= config.concurrency
    /\ calls - SumSeq(produced) <= config.concurrency
    /\ calls - SumSeq(produced) = InFlight

\* C1 witness: more targets than slots, every slot busy, a target waiting
C1_Witness ==
    /\ Len(words) > config.concurrency
    /\ InFlight = config.concurrency
    /\ NotStarted # {}

\* C2: no target ever has more than one outcome and no outcome is classified
\* before it exists or more than once; the accepted results never outnumber
\* the outcomes; and when the scanning loop has ended there is exactly one outcome
\* per non-blank wordlist line, each classified exactly once.
C2_OneOutcomePerTarget ==
    /\ \A i \in Targets : produced[i] <= 1 /\ classified[i] <= produced[i]
    /\ Len(results) <= SumSeq(classified)
    /\ SumSeq(classified) <= SumSeq(produced)
    /\ ScanCompleted =>
          /\ Len(words) = Cardinality(NonBlankLines(fs.content))
          /\ \A i \in Targets : produced[i] = 1 /\ classified[i] = 1
          /\ SumSeq(produced) = Len(words)

\* C2 witness: a completed scan of three targets, two of them the same word, with
\* fewer accepted results than outcomes
C2_Witness ==
    /\ pc = "Done"
    /\ Len(words) = 3
    /\ words[1] = words[3]
    /\ Len(results) = 2

\* C3: nothing in the accepted results comes from a request that timed out or
\* failed: every accepted entry is the outcome of a target the transport answered
\* with an HTTP response, and carries that response's numeric status.
C3_NoFailureAccepted ==
    /\ Len(acceptedFrom) = Len(results)
    /\ \A k \in 1..Len(results) :
          /\ acceptedFrom[k] \notin FailedTargets
          /\ served[acceptedFrom[k]].kind = "http"
          /\ IF impl = "scanner"
             THEN results[k].status = PyInt(served[acceptedFrom[k]].status)
             ELSE results[k][2] = served[acceptedFrom[k]].status

\* C3 witness: a timed-out request has been classified under a filter with empty
\* include and exclude lists, a negative minimum length and no keywords, and was
\* not accepted
C3_Witness ==
    /\ impl = "scanner"
    /\ config.filters = Filters({}, {}, -1, {})
    /\ Targets # {}
    /\ task[1] = "yielded"
    /\ served[1] = TimedOut
    /\ results = <<>>

\* kw occurs in body when the case of letters is ignored
OccursIgnoringCase(body, kw) ==
    \E off \in 0..(Len(body) - Len(kw)) :
        \A j \in 1..Len(kw) : LowerChar(body[off + j]) = LowerChar(kw[j])

StatusIncluded(resp, f) ==
    f.include_status_codes = {} \/ PyInt(resp.status) \in f.include_status_codes

StatusNotExcluded(resp, f) == PyInt(resp.status) \notin f.exclude_status_codes

LongEnough(resp, f) == Len(resp.body) > f.min_content_length

NoKeyword(resp, f) == \A kw \in f.exclude_keywords : ~OccursIgnoringCase(resp.body, kw)

\* C4: an outcome with a numeric status is accepted by URLScanner exactly when
\* its status is included (or the include list is empty), its status is not
\* excluded, its content length is strictly greater than min_content_length, and
\* no exclude keyword occurs in its body, letter case ignored; so one false
\* condition rejects, and a length equal to the minimum is rejected.
C4_AcceptsIffAllFour ==
    \A i \in Targets :
        (impl = "scanner" /\ task[i] = "yielded" /\ served[i].kind = "http") =>
            LET accepted == \E k \in 1..Len(acceptedFrom) : acceptedFrom[k] = i
                f == config.filters
            IN accepted <=> /\ StatusIncluded(served[i], f)
                            /\ StatusNotExcluded(served[i], f)
                            /\ LongEnough(served[i], f)
                            /\ NoKeyword(served[i], f)

\* C4 witness: a body of exactly the minimum length, every other condition true,
\* rejected
C4_Witness ==
    /\ impl = "scanner"
    /\ Targets # {}
    /\ task[1] = "yielded"
    /\ served[1].kind = "http"
    /\ Len(served[1].body) = config.filters.min_content_length
    /\ Len(served[1].body) > 0
    /\ config.filters.include_status_codes # {}
    /\ StatusIncluded(served[1], config.filters)
    /\ StatusNotExcluded(served[1], config.filters)
    /\ config.filters.exclude_keywords # {}
    /\ NoKeyword(served[1], config.filters)
    /\ results = <<>>

YieldedTargets == {i \in Targets : task[i] = "yielded"}

\* C5: URLTester's counters move once per outcome: at every moment tested_count
\* is the number of outcomes taken from as_completed and error_count the number
\* of those whose request timed out or failed; when the scan has finished,
\* tested_count is the number of targets and error_count the number of failed
\* requests.
C5_CountersExact ==
    impl = "tester" =>
        /\ tested_count = Cardinality(YieldedTargets)
        /\ error_count = Cardinality(YieldedTargets \cap FailedTargets)
        /\ ScanCompleted =>
              /\ tested_count = Len(words)
              /\ error_count = Cardinality(FailedTargets)

\* C5 witness: a finished scan of three targets: a timeout, a client error and a 404
C5_Witness ==
    /\ impl = "tester"
    /\ pc = "Done"
    /\ Len(words) = 3
    /\ \E i, j, k \in Targets :
          served[i] = TimedOut /\ served[j] = ClientError /\ served[k].kind = "http"
    /\ results = <<>>
    /\ tested_count = 3
    /\ error_count = 2

\* the value a probe returns for a request that did not get a response
FailureValue(i) ==
    IF impl = "tester" THEN <<TargetUrl(i), 0, FALSE>>
    ELSE [url |-> TargetUrl(i),
          status |-> PyStr(IF served[i] = TimedOut THEN "TIMEOUT" ELSE "ERROR"),
          content_length |-> 0]

\* C6: a request that times out or fails never ends the scan: the orchestrator is
\* in Failed only when the wordlist was not found or the summary's own division
\* failed, a failed request is held as an outcome value, and once the scanning
\* loop has ended every target has been probed and classified.
C6_FailuresDoNotAbort ==
    /\ pc = "Failed" => (fs = NoFile \/ runEnd = "ZeroDivisionError")
    /\ \A i \in FailedTargets : task[i] \in {"done", "yielded"} /\ outcome[i] = FailureValue(i)
    /\ ScanCompleted => \A i \in Targets : task[i] = "yielded" /\ served[i] # None

\* C6 witness: a scan that reached Done although its first and last request failed
C6_Witness ==
    /\ pc = "Done"
    /\ Len(words) = 3
    /\ served[1] = ClientError
    /\ served[2].kind = "http"
    /\ served[3] = TimedOut

\* C7: with no wordlist file the run never leaves the loading step for the scan:
\* no request is issued, no word is loaded and no target is created.
C7_NoRequestWithoutWordlist ==
    fs = NoFile =>
        /\ calls = 0
        /\ pc \in {"Idle", "LoadingWordlist", "Failed"}
        /\ words = <<>>
        /\ submitted = 0

\* C7 witness: the run has ended on the missing wordlist
C7_Witness == fs = NoFile /\ pc = "Failed" /\ runEnd # "running"

\* C8: the exit status tells the terminal state: non-zero when the wordlist was
\* not found, zero when the scan ran to its end.
C8_ExitStatusTellsOutcome ==
    /\ (pc = "Failed" /\ fs = NoFile) => ExitStatus # 0
    /\ (ScanCompleted /\ runEnd # "running") => ExitStatus = 0

E2EAdminUrl == <<"http:", "/", "/", "x.test", "/", "admin">>

\* C9: the end-to-end scenario ends, whatever the order of completions, with the
\* admin target as the only accepted result (status 200, and length 500 where the
\* length is recorded), three outcomes tested, one error and one result found.
C9_EndToEnd ==
    (pc = "Done" \/ (pc = "Failed" /\ runEnd = "ZeroDivisionError")) =>
        /\ acceptedFrom = <<1>>
        /\ Len(results) = 1
        /\ SumSeq(classified) = 3
        /\ Cardinality(FailedTargets) = 1
        /\ IF impl = "scanner"
           THEN /\ results[1].url = E2EAdminUrl
                /\ results[1].status = PyInt(200)
                /\ results[1].content_length = 500
                /\ report = File(<<<<"URL", "Status Code", "Content Length">>,
                                   <<E2EAdminUrl, PyInt(200), 500>>>>)
           ELSE /\ results = <<<<E2EAdminUrl, 200>>>>
                /\ tested_count = 3
                /\ error_count = 1
                /\ summary.tested = 3
                /\ summary.found = 1
                /\ summary.errors = 1

\* C9 witness: the scenario has run to Done one request at a time, and the report
\* is written
C9_Witness ==
    /\ pc = "Done"
    /\ config.concurrency = 1
    /\ Len(words) = 3
    /\ served[3] = TimedOut
    /\ report # NoFile

\* C10: the report is written at most once, only when the scan is over with every
\* outcome produced and classified and no request pending, and it then holds the
\* header and exactly one row (url, status, content length) per accepted result,
\* each for a target the transport answered and the filters accept.
C10_ReportOnceAfterScan ==
    /\ writes <= 1
    /\ (writes = 0) <=> (report = NoFile)
    /\ report # NoFile =>
          /\ impl = "scanner"
          /\ pc = "Done"
          /\ InFlight = 0
          /\ \A i \in Targets : task[i] = "yielded" /\ produced[i] = 1 /\ classified[i] = 1
          /\ Len(report.content) = 1 + Len(acceptedFrom)
          /\ Len(acceptedFrom) =
                 Cardinality({i \in Targets : IsValidResult(outcome[i], config.filters)})
          /\ \A k \in 1..Len(acceptedFrom) :
                LET t == acceptedFrom[k]
                IN /\ t \notin FailedTargets
                   /\ report.content[k + 1] =
                          <<ScannerUrl(base_url, words[t]), PyInt(served[t].status),
                            Len(served[t].body)>>

\* C10 witness: a report of two rows after a scan in which one request failed
C10_Witness ==
    /\ report # NoFile
    /\ Len(report.content) = 3
    /\ Len(words) = 3
    /\ FailedTargets # {}

\* C11: when a scan of URLScanner ends with no accepted result, _save_report
\* writes nothing: the output file is never opened for writing and is left as it
\* was before the scan.
C11_EmptyResultsNoWrite ==
    (impl = "scanner" /\ pc = "Done" /\ results = <<>>) =>
        /\ writes = 0
        /\ report = NoFile

\* C11 witness: a scan of three targets, none accepted, has returned
C11_Witness ==
    /\ impl = "scanner"
    /\ pc = "Done"
    /\ Len(words) = 3
    /\ results = <<>>
    /\ \A i \in Targets : task[i] = "yielded"

\* C12: a run whose wordlist loaded does not end without the final summary: once
\* test_urls / run is over, the summary with the counts tested, found and errored
\* has been printed, whether the requests succeeded, failed or timed out.
C12_SummaryAlwaysPrinted ==
    (fs # NoFile /\ runEnd # "running") =>
        /\ summary # None
        /\ summary.tested = Len(words)
        /\ summary.found = Len(results)
        /\ summary.errors = Cardinality(FailedTargets)

\* the filter configuration said to make _is_valid_result the simple policy
SimplePolicyFilters == Filters({}, {PyInt(404)}, 0, {})

\* target i is among the accepted results
Accepted(i) == \E k \in 1..Len(acceptedFrom) : acceptedFrom[k] = i

\* the verdicts of the two policies on the answer given to target i
SimpleVerdict(i) == TesterAccepts(TestSingleUrlResult(TargetUrl(i), served[i]))

FilterVerdict(i) == IsValidResult(FetchResult(TargetUrl(i), served[i]), SimplePolicyFilters)

EmptyBody(resp) == resp.kind = "http" /\ Len(resp.body) = 0

\* C13 as stated: on every outcome URLTester's verdict (succeeded and not 404) is
\* the verdict of _is_valid_result under include = {}, exclude = {404},
\* min_content_length = 0, no keywords: what URLTester accepted the filters accept,
\* and what URLScanner accepted under these filters the simple policy accepts.
C13_SamePolicy ==
    \A i \in Targets :
        task[i] = "yielded" =>
            /\ impl = "tester" => (Accepted(i) <=> FilterVerdict(i))
            /\ (impl = "scanner" /\ config.filters = SimplePolicyFilters) =>
                   (Accepted(i) <=> SimpleVerdict(i))

\* C13 amended: the two verdicts agree on every timeout, every network error and
\* every response of content length above 0; a response of content length 0 is
\* accepted by URLTester exactly when its status is not 404 and is always
\* rejected by _is_valid_result under these filters.
C13_SamePolicyNonEmptyBody ==
    \A i \in Targets :
        task[i] = "yielded" =>
            /\ impl = "tester" =>
                   IF EmptyBody(served[i])
                   THEN (Accepted(i) <=> served[i].status # 404) /\ ~FilterVerdict(i)
                   ELSE Accepted(i) <=> FilterVerdict(i)
            /\ (impl = "scanner" /\ config.filters = SimplePolicyFilters) =>
                   IF EmptyBody(served[i])
                   THEN ~Accepted(i)
                   ELSE Accepted(i) <=> SimpleVerdict(i)

\* C13 witness: URLScanner under the simple-policy filters has accepted a 200 with
\* a body of one character
C13_Witness ==
    /\ impl = "scanner"
    /\ config.filters = SimplePolicyFilters
    /\ Targets # {}
    /\ task[1] = "yielded"
    /\ served[1].kind = "http"
    /\ served[1].status = 200
    /\ Len(served[1].body) = 1
    /\ Accepted(1)

\* what a recorded outcome says besides its URL
OutcomeVariant(o) == IF impl = "tester" THEN <<o[2], o[3]>> ELSE o.status

\* C14: a timed-out request and a request that failed at the network layer are
\* recorded as different outcome variants: the recorded outcomes of a timeout and
\* of a network error differ in more than their URL, and where the outcome has a
\* content length it is 0 and there is no body.
C14_TimeoutAndErrorDistinct ==
    /\ \A i \in FailedTargets :
          impl = "scanner" =>
              /\ outcome[i].content_length = 0
              /\ "content" \notin DOMAIN outcome[i]
              /\ outcome[i].status =
                     PyStr(IF served[i] = TimedOut THEN "TIMEOUT" ELSE "ERROR")
    /\ \A i, j \in FailedTargets :
          (served[i] = TimedOut /\ served[j] = ClientError) =>
              OutcomeVariant(outcome[i]) # OutcomeVariant(outcome[j])

\* C15: a scan interrupted while requests are in flight does not end with its
\* partial results discarded: when the run is over after the interrupt, the
\* counts and the accepted results gathered so far have been presented (the
\* summary printed by URLTester, the report written by URLScanner), whenever
\* some result had been accepted before the interrupt.
C15_InterruptReportsPartial ==
    (runEnd = "KeyboardInterrupt" /\ results # <<>>) =>
        IF impl = "tester"
        THEN /\ summary # None
             /\ summary.found = Len(results)
             /\ summary.errors = error_count
        ELSE report = File(ReportRows(results))

\* the URL the probe of target i requested, as its outcome records it
RequestedUrl(i) == IF impl = "tester" THEN outcome[i][1] ELSE outcome[i].url

\* the configured base without its trailing slashes, one separator, the entry; for
\* an entry that begins with a slash, that slash may be the one separator
ExpectedTargets(base, word) ==
    {RStripSlash(base) \o <<"/">> \o word}
        \cup (IF word[1] = "/" THEN {RStripSlash(base) \o word} ELSE {})

\* C16: every target requested is the configured base URL with its trailing
\* slashes stripped, exactly one path separator, and the trimmed wordlist entry;
\* and there is one target per non-blank line of the wordlist, in its order.
C16_TargetIsBaseSlashEntry ==
    /\ pc \notin {"Idle", "LoadingWordlist"} =>
           /\ Len(words) = Cardinality(NonBlankLines(fs.content))
           /\ words = StripNonBlank(fs.content)
    /\ \A i \in Targets :
           served[i] # None => RequestedUrl(i) \in ExpectedTargets(config.base_url, words[i])

\* the entry the aggregation loop appends for target i
ResultOf(i) == IF impl = "tester" THEN <<outcome[i][1], outcome[i][2]>> ELSE outcome[i]

\* the accepted results of a scan whose requests complete in wordlist order
RECURSIVE InOrderResults(_)
InOrderResults(n) ==
    IF n = 0 THEN <<>>
    ELSE IF Accepted(n) THEN Append(InOrderResults(n - 1), ResultOf(n))
         ELSE InOrderResults(n - 1)

\* what a finished scan has presented: the listing of the summary, the rows of
\* the report after its header
Presented == IF impl = "tester" THEN summary.listing ELSE Tail(report.content)

PresentedOf(rs) == IF impl = "tester" THEN SortedByStatus(rs) ELSE Tail(ReportRows(rs))

\* C17: the order in which a finished scan presents its accepted results does not
\* depend on the order of completions.  A scan whose requests complete in wordlist
\* order is one of the interleavings, so the presentation of every scan with the
\* same targets and the same responses must be the one of that scan.
C17_PresentationOrderDeterministic ==
    (pc = "Done" /\ results # <<>>) =>
        Presented = PresentedOf(InOrderResults(Len(words)))

\* target i has its outcome, and the classifier accepts it
WouldAccept(i) ==
    /\ task[i] \in {"done", "yielded"}
    /\ IF impl = "tester" THEN TesterAccepts(outcome[i])
       ELSE IsValidResult(outcome[i], config.filters)

\* the loop takes the outcome of target i in this step
Consumes(i) == task[i] = "done" /\ task'[i] = "yielded"

\* accepted outcomes that completed before that of target i and are not yet taken
AcceptedBefore(i) ==
    {j \in Targets : /\ WouldAccept(j)
                     /\ \E a, b \in 1..Len(doneq) : a < b /\ doneq[a] = j /\ doneq[b] = i}

\* the results hold what the loop has taken and the classifier accepted
ResultsAreAcceptedTaken ==
    /\ Len(results) = Len(acceptedFrom)
    /\ \A k \in 1..Len(results) : results[k] = ResultOf(acceptedFrom[k])
    /\ \A k, m \in 1..Len(acceptedFrom) : acceptedFrom[k] = acceptedFrom[m] => k = m
    /\ {acceptedFrom[k] : k \in 1..Len(acceptedFrom)} =
           {i \in Targets : task[i] = "yielded" /\ WouldAccept(i)}

\* a step leaves the results alone or appends the entry of the outcome it takes
AppendsOnly ==
    \/ results' = results
    \/ \E i \in Targets : Consumes(i) /\ WouldAccept(i) /\ results' = Append(results, ResultOf(i))

SharedState == <<tested_count, error_count, results>>

\* a probe starts, blocks on the semaphore, or returns in this step
ProbeStep ==
    \E i \in Targets : task'[i] # task[i] /\ task'[i] \in {"running", "waiting", "done"}

\* C19: the probes leave tested_count, error_count and the accepted results as
\* they are; these change only in a pass of the aggregation loop, which takes
\* exactly one completed outcome, counts it once and appends at most its entry,
\* while no probe starts or returns within that update.
C19_OnlyLoopWritesShared ==
    [][/\ ProbeStep => SharedState' = SharedState
       /\ SharedState' # SharedState =>
             /\ pc = "Consuming" /\ pc' = "Consuming"
             /\ Cardinality({i \in Targets : Consumes(i)}) = 1
             /\ \A i \in Targets : task'[i] # task[i] => Consumes(i)
             /\ tested_count' - tested_count \in {0, 1}
             /\ error_count' - error_count \in {0, 1}
             /\ Len(results') - Len(results) \in {0, 1}]_vars

\* C19 witness: URLTester has counted one failed outcome while another request is
\* in flight and a third outcome waits to be taken
C19_Witness ==
    /\ impl = "tester"
    /\ pc = "Consuming"
    /\ tested_count = 1
    /\ error_count = 1
    /\ InFlight = 1
    /\ doneq # <<>>

\* C20: in URLScanner every permit taken is given back, whichever way the request
\* ends: the free permits and the requests in flight always add up to the
\* configured concurrency, every target that waits for a permit eventually gets
\* its request answered, and the run eventually ends in _save_report with one
\* outcome per target and every permit free.
C20_PermitsReturnedRunEnds ==
    /\ [](pc \in {"Consuming", "Summarizing", "Done"} => sem + InFlight = config.concurrency)
    /\ \A i \in 1..MaxLines :
          (i \in Targets /\ task[i] = "waiting") ~> (i \in Targets /\ served[i] # None)
    /\ <>(/\ pc = "Done"
          /\ \A i \in Targets : produced[i] = 1 /\ task[i] = "yielded"
          /\ sem = config.concurrency)

\* C20 witness: more targets than permits; a target waits for a permit while a
\* request that timed out and one that failed have given theirs back
C20_Witness ==
    /\ impl = "scanner"
    /\ Len(words) > config.concurrency
    /\ \E i, j, k \in Targets :
          task[i] = "waiting" /\ served[j] = TimedOut /\ served[k] = ClientError
    /\ sem = config.concurrency

====
